---- MODULE Spec2Model ----
(***************************************************************************)
(* Model of the camera-monitoring front end: the VideoFeed playback        *)
(* session (VideoFeed component), the Terminal component's fetch override  *)
(* and WebSocket effect, and the Index page's feed list and terminal log.  *)
(*                                                                         *)
(* Every action is one turn of the browser's event loop: the handler or    *)
(* callback, the React re-render it causes and the effects that re-render  *)
(* schedules.                                                              *)
(***************************************************************************)
EXTENDS Integers, Sequences, FiniteSets, TLC

VARIABLES
    vf,          \* VideoFeed: props feed.id / feed.url and the useState cells
    media,       \* the <video> element behind videoRef
    promises,    \* pending promises returned by videoRef.current.play()
    detached,    \* removed <video> elements whose resource fetch still runs
    vlast,       \* what the last VideoFeed turn did
    windowFetch, \* the function installed as window.fetch
    originalFetch, \* the fetch effect's captured const originalFetch
    apiEndpoint, \* Terminal's apiEndpoint state
    armed,       \* the Terminal component is mounted (its effects ran)
    flast,       \* what the last call of window.fetch did
    wsEndpoint,  \* Terminal's wsEndpoint state
    wsConnected, \* Terminal's wsConnected state
    socket,      \* Terminal's socket state (a connection, 0 = null)
    effectWs,    \* the variable ws of the latest WebSocket effect run (0 = null)
    conns,       \* the WebSocket objects created so far
    timers,      \* callbacks passed to setTimeout, not yet run
    wsMounted,   \* the Terminal owning the socket is mounted
    toggledFrom, \* the endpoint before the presses whose timers are pending
    slast,       \* what the last socket turn did
    feeds,       \* Index's feeds state
    terminalOutput, \* Index's terminalOutput state
    activeFeeds, \* Index's activeFeeds state
    currentFeedIndex, \* Index's currentFeedIndex state
    pendingFeeds, \* setTimeout callbacks announcing the mock feeds
    pendingDetections, \* setTimeout callbacks of changeDetectionMode
    now,         \* the clock new Date() reads
    ilast,       \* what the last Index turn did
    locator,     \* the locator handed to the classification on its own
    sourceKind,  \* the kind the classification computed for it
    listeners,   \* document's listeners of 'detectionEvent', in registration order
    inbox,       \* what each subscriber's handler has been called with
    published,   \* the events dispatched on document so far
    blast        \* what the last dispatching turn did

sessionVars == <<vf, media, promises, detached, vlast>>
fetchVars == <<windowFetch, originalFetch, apiEndpoint, armed, flast>>
socketVars == <<wsEndpoint, wsConnected, socket, effectWs, conns, timers,
                wsMounted, toggledFrom, slast>>
indexVars == <<feeds, terminalOutput, activeFeeds, currentFeedIndex,
               pendingFeeds, pendingDetections, now, ilast>>
classifyVars == <<locator, sourceKind>>
busVars == <<listeners, inbox, published, blast>>
vars == <<sessionVars, fetchVars, socketVars, indexVars, classifyVars,
          busVars>>
\* what the turns of one component leave alone
notSession == <<fetchVars, socketVars, indexVars, classifyVars, busVars>>
notFetch == <<sessionVars, socketVars, indexVars, classifyVars, busVars>>
notSocket == <<sessionVars, fetchVars, indexVars, classifyVars, busVars>>
notIndex == <<sessionVars, fetchVars, socketVars, classifyVars, busVars>>
notClassify == <<sessionVars, fetchVars, socketVars, indexVars, busVars>>
notBus == <<sessionVars, fetchVars, socketVars, indexVars, classifyVars>>

(***************************************************************************)
(* Bounds                                                                  *)
(***************************************************************************)
MaxRetry == 2
MaxPending == 2
MaxConns == 2
MaxTimers == 2
MaxLog == 4
MaxClock == 1
MaxLocatorLen == 3
MaxDetached == 1
MaxPublished == 2
MaxAnnounced == 3

(***************************************************************************)
(* Strings.  A locator is a sequence of tokens; concatenating the tokens   *)
(* gives the string.  The tokens are chosen so that no searched substring  *)
(* straddles two tokens.                                                   *)
(***************************************************************************)
ToLowerTok_Identity(t) == t

ToLowerTok(t) ==
    CASE t = "RTSP://" -> "rtsp://"
      [] t = "HTTP://" -> "http://"
      [] t = ".MP4"    -> ".mp4"
      [] t = "/STREAM" -> "/stream"
      [] t = "/Clip"   -> "/clip"
      [] OTHER         -> t

toLowerCase(s) == [i \in 1..Len(s) |-> ToLowerTok(s[i])]

endsWith(s, t) == Len(s) > 0 /\ s[Len(s)] = t

\* the tokens in which the substring sub occurs
TokIncludes(t, sub) ==
    CASE sub = "stream"     -> t \in {"/stream", "/upstream.png"}
      [] sub = "video_feed" -> t \in {"/video_feed"}
      [] OTHER              -> t = sub

includes(s, sub) == \E i \in 1..Len(s) : TokIncludes(s[i], sub)

\* the tokens locators are made of
Tokens == {"rtsp://", "rtmp://", "http://", "https://", "RTSP://", "HTTP://",
           "cam.local", "192.168.1.20", ":8554", ":8080",
           "/stream", "/video_feed", "/clip", "/placeholder.svg",
           "/upstream.png", "/STREAM", "/Clip",
           ".mp4", ".webm", ".mov", ".avi", ".mkv", ".MP4"}

IsIPv4Tok(t) == t \in {"192.168.1.20"}
IsPortTok(t) == t \in {":8554", ":8080"}
\* tokens starting with "/"
IsPathHeadTok(t) == t \in {"/stream", "/video_feed", "/clip", "/placeholder.svg",
                           "/upstream.png", "/STREAM", "/Clip"}
\* tokens made only of characters of the regex's path class: letters, digits,
\* "/", ".", "_" and ":" are all in it
IsPathCharTok(t) == t \in Tokens
\* the token ends with a word character, so no \b follows it before a digit
EndsWithWordChar(t) == t \notin {"rtsp://", "rtmp://", "http://", "https://",
                                 "RTSP://", "HTTP://"}

\* /\b(?:[0-9]{1,3}\.){3}[0-9]{1,3}(?::[0-9]+)?(?:\/[\w\/\.\_\-...]*)?$/.test(s)
IpCameraPattern(s) ==
    \E i \in 1..Len(s) :
        /\ IsIPv4Tok(s[i])
        /\ (i > 1 => ~EndsWithWordChar(s[i-1]))
        /\ LET j == IF i < Len(s) /\ IsPortTok(s[i+1]) THEN i + 1 ELSE i
           IN  \/ j = Len(s)
               \/ /\ IsPathHeadTok(s[j+1])
                  /\ \A k \in (j+1)..Len(s) : IsPathCharTok(s[k])

isVideoFile_Mp4Only(url) == endsWith(url, ".mp4")

isVideoFile(url) ==
    \/ endsWith(url, ".mp4") \/ endsWith(url, ".webm") \/ endsWith(url, ".mov")
    \/ endsWith(url, ".avi") \/ endsWith(url, ".mkv")

isStream(url) ==
    \/ includes(url, "rtsp://") \/ includes(url, "rtmp://")
    \/ includes(url, "http://") \/ includes(url, "https://")
    \/ includes(url, "stream")  \/ includes(url, "video_feed")
    \/ IpCameraPattern(url)

(***************************************************************************)
(* VideoFeed                                                               *)
(***************************************************************************)
\* locators the page hands to the session
Locators == { <<>>,
              <<"/placeholder.svg">>,
              <<"/clip", ".mp4">>,
              <<"rtsp://", "cam.local", "/stream">> }
FeedIds == {"1", "2"}

\* errors a rejected play() promise carries (DOMException name, code, message)
NotAllowedError   == [name |-> "NotAllowedError",   code |-> 0,  message |-> "play() failed because the user didn't interact with the document first"]
AbortError        == [name |-> "AbortError",        code |-> 20, message |-> "The play() request was interrupted by a new load request"]
NotSupportedError == [name |-> "NotSupportedError", code |-> 9,  message |-> "The element has no supported sources"]
PlayErrors == {NotAllowedError, AbortError, NotSupportedError}

\* videoElement.error as handleVideoError reads it: code (0 = absent) and message
MediaErrors == [code : 0..4, message : {"", "PIPELINE_ERROR_READ"}]

MessageIncludesNetwork(m) == m \in {"A network error occurred"}
AutoplayHint == "Browser prevented autoplay. Click play to start the stream."

getErrorMessage(error) ==
    IF error.name = "NotSupportedError"
    THEN "The video format is not supported by your browser, or the stream might be offline."
    ELSE IF error.name = "SecurityError"
    THEN "Security error: Camera access might be blocked due to CORS. Try enabling CORS on your camera server."
    ELSE IF error.name = "NetworkError" \/ MessageIncludesNetwork(error.message)
    THEN "Network error: Unable to connect to the camera stream. Check that the IP address is correct and accessible from your current network."
    ELSE IF error.name = "NotAllowedError"
    THEN "Permission denied: Browser prevented autoplay."
    ELSE IF error.code = 2
    THEN "Network error: The camera might be on a different network or behind a firewall."
    ELSE IF error.code = 3
    THEN "Decoding error: The video format might not be compatible with your browser."
    ELSE IF error.code = 4
    THEN "Format not supported: The camera stream format is not compatible or the URL might be incorrect."
    ELSE IF error.message # "" THEN error.message
    ELSE "Unknown error loading camera feed. Check that the camera is powered on and the URL is correct."

\* the useState initial values, for the feed the component is mounted with
useStateInit(id, u) ==
    [ feedId |-> id, url |-> u,
      isPlaying |-> FALSE, isVideoFeed |-> TRUE, isLiveStream |-> FALSE,
      hasError |-> FALSE, errorDetails |-> "", isLoading |-> TRUE,
      retryCount |-> 0 ]

\* renderVideoContent: the <video> element (and so videoRef.current) exists
\* exactly when the error panel is not shown and the feed is a video feed
videoRef(st) == ~st.hasError /\ st.isVideoFeed

\* A turn works on w = [st, media, promises, cmds]; cmds lists the commands
\* the turn issued to the media element.
World(st) == [st |-> st, media |-> media, promises |-> promises,
              detached |-> detached, cmds |-> <<>>]

\* load() and pause() reject the element's pending play promises (AbortError)
Interrupt(ps) == [i \in 1..Len(ps) |-> [ps[i] EXCEPT !.interrupted = TRUE]]
\* a new load attempt supersedes the attempts that issued the pending promises
Supersede(ps) == [i \in 1..Len(ps) |-> [ps[i] EXCEPT !.stale = TRUE]]

ElLoad(w) == [w EXCEPT !.media = "loading", !.promises = Interrupt(@),
                       !.cmds = Append(@, "load")]
ElPause(w) == [w EXCEPT !.promises = Interrupt(@), !.cmds = Append(@, "pause")]
ElPlay(w, origin) ==
    [w EXCEPT !.promises = Append(@, [origin |-> origin, stale |-> FALSE,
                                      interrupted |-> FALSE]),
              !.cmds = Append(@, "play")]

\* the effect without its three resets
LoadEffect_NoReset(w, c) ==
    LET w1 == [w EXCEPT !.promises = Supersede(@)]
    IN  IF videoRef(c)
        THEN IF c.isPlaying \/ c.isLiveStream
             THEN ElPlay(ElLoad(w1), "load")
             ELSE ElPause(ElLoad(w1))
        ELSE w1

\* useEffect(..., [feed.id, feed.url, retryCount]); c is the render's closure
LoadEffect(w, c) ==
    LET w1 == [w EXCEPT !.st.hasError = FALSE, !.st.errorDetails = "",
                        !.st.isLoading = TRUE, !.promises = Supersede(@)]
    IN  IF videoRef(c)
        THEN IF c.isPlaying \/ c.isLiveStream
             THEN ElPlay(ElLoad(w1), "load")
             ELSE ElPause(ElLoad(w1))
        ELSE w1

\* useEffect(..., [feed.url]); c is the render's closure
ClassifyEffect(w, c) ==
    LET url == toLowerCase(c.url)
        file == isVideoFile(url)
        stream == isStream(url)
        w1 == [w EXCEPT !.st.isVideoFeed = file \/ stream,
                        !.st.isLiveStream = stream /\ ~file]
    IN  IF stream /\ ~file /\ videoRef(c)
        THEN ElPlay([w1 EXCEPT !.st.isPlaying = TRUE], "classify")
        ELSE w1

\* commit of a render: the <video> element is mounted or removed to match
\* renderVideoContent; a new element starts fetching its src, a removed one
\* is paused by the browser.  Nothing stops the fetch of a removed element:
\* it goes on until the browser ends it (DetachedLoadEnds).  An element
\* with an empty src has no fetch.
Commit(w) ==
    IF videoRef(w.st) /\ w.media = "unmounted"
    THEN [w EXCEPT !.media = "loading"]
    ELSE IF ~videoRef(w.st) /\ w.media # "unmounted"
    THEN [w EXCEPT !.media = "unmounted", !.promises = Interrupt(@),
                   !.detached = IF w.media = "loading" /\ w.st.url # <<>>
                                THEN @ + 1 ELSE @]
    ELSE w

Finish(w, op) ==
    /\ Len(w.promises) <= MaxPending
    /\ w.detached <= MaxDetached
    /\ detached' = w.detached
    /\ vf' = w.st
    /\ media' = w.media
    /\ promises' = w.promises
    /\ vlast' = [op EXCEPT !.cmds = w.cmds,
                          !.fromError = vf.hasError,
                          !.fresh = (media = "unmounted" /\ w.media # "unmounted")]
    /\ UNCHANGED notSession

\* cmds: the commands of the turn; fromError: the turn started with the error
\* panel shown; fresh: the turn's commit created the <video> element, which
\* starts fetching its src
NoOp == [op |-> "none", origin |-> "none", stale |-> FALSE, error |-> "none",
         cmds |-> <<>>, fromError |-> FALSE, fresh |-> FALSE]

\* first render and the two effects of the mount
Mounted(id, u) ==
    LET st0 == useStateInit(id, u)
        w0 == [st |-> st0, media |-> "loading", promises |-> <<>>,
               detached |-> 0, cmds |-> <<>>]
    IN  Commit(ClassifyEffect(LoadEffect(w0, st0), st0))

MountedWith(id, u) ==
    LET w == Mounted(id, u)
    IN  /\ vf = w.st
        /\ media = w.media
        /\ promises = w.promises
        /\ detached = w.detached
        /\ vlast = [NoOp EXCEPT !.op = "mount", !.cmds = w.cmds, !.fresh = TRUE]

\* the component can be mounted with any feed
SessionInit == \E id \in FeedIds, u \in Locators : MountedWith(id, u)

\* the page first displays the mock feed "1" ("/placeholder.svg")
FirstFeedInit == MountedWith("1", <<"/placeholder.svg">>)

\* Index passes another displayedFeed to the same VideoFeed instance
SetFeed(id, u) ==
    /\ <<id, u>> # <<vf.feedId, vf.url>>
    /\ LET c == [vf EXCEPT !.feedId = id, !.url = u]
           \* a changed src attribute restarts the element's resource fetch
           w0 == IF videoRef(c) /\ u # vf.url
                 THEN [World(c) EXCEPT !.media = "loading",
                                       !.promises = Interrupt(@)]
                 ELSE World(c)
           w1 == LoadEffect(w0, c)
           w2 == IF u # vf.url THEN ClassifyEffect(w1, c) ELSE w1
       IN  Finish(Commit(w2), [NoOp EXCEPT !.op = "SetFeed"])

handleVideoLoaded ==
    /\ media = "loading"
    /\ LET w == [World([vf EXCEPT !.isLoading = FALSE, !.hasError = FALSE,
                                  !.errorDetails = ""])
                 EXCEPT !.media = "ready"]
       IN  Finish(Commit(w), [NoOp EXCEPT !.op = "handleVideoLoaded"])

handleVideoErrorDetails_MessageOnly(e) == e.message

handleVideoErrorDetails(e) ==
    CASE e.code = 1 -> "Loading was aborted"
      [] e.code = 2 -> "Network error: The camera might be on a different network or the URL is incorrect"
      [] e.code = 3 -> "Video decoding error or unsupported format"
      [] e.code = 4 -> "Video format not supported or camera stream unavailable. Check if the URL endpoint returns a valid video stream."
      [] OTHER -> IF e.message # "" THEN e.message
                  ELSE "Unknown error loading video"

handleVideoError(e) ==
    /\ media \in {"loading", "ready"}
    /\ LET w == World([vf EXCEPT !.isLoading = FALSE, !.hasError = TRUE,
                                 !.errorDetails = handleVideoErrorDetails(e)])
       IN  Finish(Commit(w), [NoOp EXCEPT !.op = "handleVideoError"])

\* the play/pause button of renderVideoContent
togglePlayback ==
    /\ videoRef(vf)
    /\ LET w == IF vf.isPlaying
                THEN ElPause(World([vf EXCEPT !.isPlaying = FALSE]))
                ELSE ElPlay(World([vf EXCEPT !.isLoading = TRUE]), "toggle")
       IN  Finish(Commit(w), [NoOp EXCEPT !.op = "togglePlayback"])

\* the Try Again button of the error panel
retryLoading ==
    /\ vf.hasError
    /\ vf.retryCount < MaxRetry
    /\ LET c == [vf EXCEPT !.retryCount = @ + 1, !.isLoading = TRUE,
                           !.hasError = FALSE, !.errorDetails = ""]
           w == LoadEffect(Commit(World(c)), c)
       IN  Finish(Commit(w), [NoOp EXCEPT !.op = "retryLoading"])

RemoveAt(s, i) == [j \in 1..(Len(s) - 1) |-> IF j < i THEN s[j] ELSE s[j+1]]

\* .then() of a play() promise: only togglePlayback registers one
PlayResolved(i) ==
    /\ i \in 1..Len(promises)
    /\ ~promises[i].interrupted
    /\ LET p == promises[i]
           st == IF p.origin = "toggle"
                 THEN [vf EXCEPT !.isPlaying = TRUE, !.hasError = FALSE,
                                 !.errorDetails = ""]
                 ELSE vf
           w == [World(st) EXCEPT !.promises = RemoveAt(@, i)]
       IN  Finish(Commit(w), [NoOp EXCEPT !.op = "PlayResolved",
                                          !.origin = p.origin,
                                          !.stale = p.stale])

\* .catch() of a play() promise
PlayCatch(origin, error) ==
    IF origin = "load" /\ error.name = "NotAllowedError"
    THEN [vf EXCEPT !.isPlaying = FALSE, !.errorDetails = AutoplayHint,
                    !.hasError = FALSE]
    ELSE [vf EXCEPT !.isPlaying = FALSE, !.hasError = TRUE,
                    !.errorDetails = getErrorMessage(error)]

PlayRejected(i, error) ==
    /\ i \in 1..Len(promises)
    /\ promises[i].interrupted <=> error = AbortError
    /\ LET p == promises[i]
           w == [World(PlayCatch(p.origin, error))
                 EXCEPT !.promises = RemoveAt(@, i)]
       IN  Finish(Commit(w), [NoOp EXCEPT !.op = "PlayRejected",
                                          !.origin = p.origin,
                                          !.stale = p.stale,
                                          !.error = error.name])

\* the browser ends the fetch of a removed element: the resource is complete
\* or failed, or the element is garbage-collected
DetachedLoadEnds ==
    /\ detached > 0
    /\ detached' = detached - 1
    /\ vlast' = [NoOp EXCEPT !.op = "DetachedLoadEnds"]
    /\ UNCHANGED <<vf, media, promises, notSession>>

\* renderVideoContent: a <div> with the locator as background image, a
\* <video> with the LIVE badge and no loop, or a looping <video>
SourceKind(st) ==
    IF ~st.isVideoFeed THEN "StaticImage"
    ELSE IF st.isLiveStream THEN "LiveStream"
    ELSE "FileVideo"

\* renderVideoContent: what the session shows
renderVideoContent(st) ==
    IF st.hasError THEN "error panel"
    ELSE IF st.isVideoFeed THEN "video"
    ELSE "static image"

\* the loop attribute of the <video> element
loop(st) == ~st.isLiveStream

SessionNext ==
    \/ \E id \in FeedIds, u \in Locators : SetFeed(id, u)
    \/ handleVideoLoaded
    \/ \E e \in MediaErrors : handleVideoError(e)
    \/ togglePlayback
    \/ retryLoading
    \/ \E i \in 1..MaxPending : PlayResolved(i)
    \/ \E i \in 1..MaxPending, error \in PlayErrors : PlayRejected(i, error)
    \/ DetachedLoadEnds


(***************************************************************************)
(* VideoFeed: the classification of a locator, on its own                  *)
(***************************************************************************)
RECURSIVE SeqsUpTo(_, _)
SeqsUpTo(S, n) ==
    IF n = 0 THEN {<<>>}
    ELSE LET shorter == SeqsUpTo(S, n - 1)
         IN  shorter \cup {Append(s, t) : s \in shorter, t \in S}

\* the tokens of the locators classified on their own
ClassifyTokens == {"rtsp://", "RTSP://", "rtmp://", "https://",
                   "cam.local", "192.168.1.20", ":8554",
                   "/stream", "/video_feed", "/Clip", "/placeholder.svg",
                   ".mp4", ".webm", ".mov", ".avi", ".mkv", ".MP4"}

\* every string of at most MaxLocatorLen of these tokens
LocatorInputs == SeqsUpTo(ClassifyTokens, MaxLocatorLen)

\* the source kind the classification effect leaves in the state for url
classify(url) ==
    LET st0 == useStateInit("1", url)
        w0 == [st |-> st0, media |-> "unmounted", promises |-> <<>>,
               detached |-> 0, cmds |-> <<>>]
    IN  SourceKind(ClassifyEffect(w0, st0).st)

NotClassified == "<none>"

\* outside the classification's own specification nothing is being classified
ClassifyIdle == locator = <<>> /\ sourceKind = NotClassified

ClassifyInit == locator \in LocatorInputs /\ sourceKind = NotClassified

Classify ==
    /\ sourceKind = NotClassified
    /\ sourceKind' = classify(locator)
    /\ UNCHANGED <<locator, notClassify>>

ClassifyNext == Classify

(***************************************************************************)
(* Terminal: the window.fetch override                                     *)
(***************************************************************************)
Undefined == "<undefined>"

\* window.location.origin of the page
Origin == <<"http://", "localhost", ":8080">>

DefaultApiEndpoint == <<"/detection_output">>
ApiEndpoints == { <<"/detection_output">>, <<"/events">> }

\* URL strings handed to fetch, as token sequences
FetchUrls ==
    { <<"/detection_output">>,
      <<"/detection_output", "?src=cam">>,
      <<"http://", "localhost", ":8080", "/detection_output">>,
      <<"https://", "other.example", "/detection_output">>,
      <<"/api", "/detection_output">>,
      <<"/events">>,
      <<"/api", "/feeds">>,
      <<"data.json">>,
      <<"detection_output">>,
      <<"data:application/json,{}">> }

IsSchemeTok(t) == t \in {"http://", "https://"}
IsHostTok(t) == t \in {"localhost", "other.example"}
IsUrlPortTok(t) == t \in {":8080"}
IsUrlPathTok(t) == t \in {"/detection_output", "/events", "/api", "/feeds"}
IsQueryTok(t) == t \in {"?src=cam"}
\* characters that extend a host name when they directly follow it
IsHostCharTok(t) == t \in {"data.json", "detection_output"}

startsWithHttp(s) == Len(s) > 0 /\ IsSchemeTok(s[1])

\* new URL(s): fails (TypeError) unless s is scheme host [port] path* [query];
\* pathname is "/" when there are no path segments
ParseURL(s) ==
    IF ~(Len(s) >= 2 /\ IsSchemeTok(s[1]) /\ IsHostTok(s[2]))
    THEN [ok |-> FALSE, pathname |-> <<>>]
    ELSE LET h == IF Len(s) >= 3 /\ IsHostCharTok(s[3]) THEN 4 ELSE 3
             a == IF Len(s) >= h /\ IsUrlPortTok(s[h]) THEN h + 1 ELSE h
             z == IF Len(s) >= a /\ IsQueryTok(s[Len(s)])
                  THEN Len(s) - 1 ELSE Len(s)
             path == SubSeq(s, a, z)
         IN  IF \A k \in a..z : IsUrlPathTok(s[k])
             THEN [ok |-> TRUE,
                   pathname |-> IF path = <<>> THEN <<"/">> ELSE path]
             ELSE [ok |-> FALSE, pathname |-> <<>>]

\* request bodies: strings (by their text) and one value that is not a string
StringBodies ==
    { "{\"event\":\"Person detected\",\"feedId\":\"1\",\"timestamp\":\"14:35:22\",\"confidence\":0.95}",
      "{\"feedId\":\"2\"}",
      "null",
      "42",
      "not json",
      "{\"event\":" }
FormDataBody == "[object FormData]"
Bodies == StringBodies \cup {FormDataBody, Undefined}
typeofString(b) == b \in StringBodies

JObject(e, f, t, c) ==
    [type |-> "object", event |-> e, feedId |-> f, timestamp |-> t,
     confidence |-> c, message |-> Undefined]
JNull == [type |-> "null", event |-> Undefined, feedId |-> Undefined,
          timestamp |-> Undefined, confidence |-> Undefined,
          message |-> Undefined]
JNumber == [type |-> "number", event |-> Undefined, feedId |-> Undefined,
            timestamp |-> Undefined, confidence |-> Undefined,
            message |-> Undefined]

\* JSON.parse(text): ok = FALSE stands for the SyntaxError it throws
JSONparse(text) ==
    CASE text = "{\"event\":\"Person detected\",\"feedId\":\"1\",\"timestamp\":\"14:35:22\",\"confidence\":0.95}"
            -> [ok |-> TRUE, value |-> JObject("Person detected", "1", "14:35:22", "0.95")]
      [] text = "{\"feedId\":\"2\"}"
            -> [ok |-> TRUE, value |-> JObject(Undefined, "2", Undefined, Undefined)]
      [] text = "{\"event\":\"Vehicle detected\",\"feedId\":\"2\"}"
            -> [ok |-> TRUE, value |-> JObject("Vehicle detected", "2", Undefined, Undefined)]
      [] text = "null" -> [ok |-> TRUE, value |-> JNull]
      [] text = "42"   -> [ok |-> TRUE, value |-> JNumber]
      [] OTHER         -> [ok |-> FALSE, value |-> JNull]

\* data.event, data.feedId, ... : reading a property of null throws a TypeError
PropertyReadThrows(data) == data.type = "null"

NoInit == [method |-> Undefined, body |-> Undefined]
Inits == {NoInit} \cup [method : {"POST", "GET", "post"}, body : Bodies]
Requests == [input : FetchUrls, init : Inits]

\* the body of the override installed for endpoint ep, up to the point where
\* it returns, throws, or falls through to originalFetch.apply
Override(ep, req) ==
    LET url == req.input
        urlObj == ParseURL(IF startsWithHttp(url) THEN url ELSE Origin \o url)
        endpointObj == ParseURL(Origin \o ep)
        none == [events |-> <<>>, toasts |-> 0]
    IN  IF ~urlObj.ok \/ ~endpointObj.ok
        THEN none @@ [outcome |-> "throw", matched |-> FALSE]
        ELSE IF urlObj.pathname = endpointObj.pathname /\ req.init.method = "POST"
        THEN IF typeofString(req.init.body)
             THEN LET parsed == JSONparse(req.init.body)
                  IN  IF ~parsed.ok
                      THEN none @@ [outcome |-> "forward", matched |-> TRUE]
                      ELSE IF PropertyReadThrows(parsed.value)
                      THEN [events |-> <<parsed.value>>, toasts |-> 0,
                            outcome |-> "forward", matched |-> TRUE]
                      ELSE [events |-> <<parsed.value>>, toasts |-> 1,
                            outcome |-> "return", matched |-> TRUE]
             ELSE none @@ [outcome |-> "forward", matched |-> TRUE]
        ELSE none @@ [outcome |-> "forward", matched |-> FALSE]

\* Calling a fetch function.  A function is the sequence of the endpoints of
\* the overrides stacked on the browser's own fetch (<<>>): the override for
\* ep whose originalFetch is f is Append(f, ep).
RECURSIVE Call(_, _)
Call(f, req) ==
    IF f = <<>>
    THEN [events |-> <<>>, toasts |-> 0, forwarded |-> <<req>>,
          response |-> "network", matched |-> FALSE]
    ELSE LET o == Override(f[Len(f)], req)
             inner == Call(SubSeq(f, 1, Len(f) - 1), req)
         IN  CASE o.outcome = "return" ->
                    [events |-> o.events, toasts |-> o.toasts,
                     forwarded |-> <<>>, response |-> "synthesized 200",
                     matched |-> o.matched]
               [] o.outcome = "throw" ->
                    [events |-> o.events, toasts |-> o.toasts,
                     forwarded |-> <<>>, response |-> "TypeError",
                     matched |-> o.matched]
               [] OTHER ->
                    [events |-> o.events \o inner.events,
                     toasts |-> o.toasts + inner.toasts,
                     forwarded |-> inner.forwarded,
                     response |-> inner.response,
                     matched |-> o.matched]

NoFetch == [op |-> "none", req |-> [input |-> <<>>, init |-> NoInit],
            armed |-> FALSE, endpoint |-> <<>>,
            events |-> <<>>, toasts |-> 0, forwarded |-> <<>>,
            response |-> "none", matched |-> FALSE]

\* the effect body: capture window.fetch, install the override
InstallOverride(ep) ==
    /\ originalFetch' = windowFetch
    /\ windowFetch' = Append(windowFetch, ep)

\* the effect's cleanup
RestoreFetch == originalFetch

\* Terminal is mounted with apiEndpoint = "/detection_output"
FetchInit ==
    /\ windowFetch = <<DefaultApiEndpoint>>
    /\ originalFetch = <<>>
    /\ apiEndpoint = DefaultApiEndpoint
    /\ armed = TRUE
    /\ flast = NoFetch

Arm ==
    /\ ~armed
    /\ armed' = TRUE
    /\ apiEndpoint' = DefaultApiEndpoint
    /\ InstallOverride(DefaultApiEndpoint)
    /\ flast' = [NoFetch EXCEPT !.op = "arm"]
    /\ UNCHANGED notFetch

\* apiEndpoint changes: cleanup of the old effect, then the effect again
Rearm(ep) ==
    /\ armed
    /\ ep # apiEndpoint
    /\ apiEndpoint' = ep
    /\ originalFetch' = RestoreFetch
    /\ windowFetch' = Append(RestoreFetch, ep)
    /\ flast' = [NoFetch EXCEPT !.op = "rearm"]
    /\ UNCHANGED <<armed, notFetch>>

\* Terminal unmounts: cleanup
Disarm ==
    /\ armed
    /\ armed' = FALSE
    /\ windowFetch' = RestoreFetch
    /\ flast' = [NoFetch EXCEPT !.op = "disarm"]
    /\ UNCHANGED <<originalFetch, apiEndpoint, notFetch>>

\* some code of the page calls window.fetch(input, init)
Fetch(req) ==
    /\ LET r == Call(windowFetch, req)
       IN  flast' = [op |-> "fetch", req |-> req, armed |-> armed,
                     endpoint |-> apiEndpoint,
                     events |-> r.events, toasts |-> r.toasts,
                     forwarded |-> r.forwarded, response |-> r.response,
                     matched |-> r.matched]
    /\ UNCHANGED <<windowFetch, originalFetch, apiEndpoint, armed, notFetch>>

FetchNext ==
    \/ Arm
    \/ \E ep \in ApiEndpoints : Rearm(ep)
    \/ Disarm
    \/ \E req \in Requests : Fetch(req)


(***************************************************************************)
(* Terminal: the WebSocket effect                                          *)
(***************************************************************************)
DefaultWsEndpoint == "ws://localhost:8080/ws"
\* what the operator types into the endpoint input
WsEndpointInputs == {"ws://localhost:8080/ws", "ws://cam.local:9000/ws",
                     "localhost:8080"}

\* new WebSocket(url) throws a SyntaxError for a URL that is not a ws/wss URL.
\* The empty string is a relative URL: browsers that resolve it against the
\* page's URL connect, the others throw.
WebSocketThrows(url) ==
    CASE url = ""               -> {TRUE, FALSE}
      [] url = "localhost:8080" -> {TRUE}
      [] OTHER                  -> {FALSE}

\* frames the server sends
WsFrames == { "{\"event\":\"Vehicle detected\",\"feedId\":\"2\"}",
              "null", "not json" }

RawMessage(frame) ==
    [type |-> "object", event |-> "Raw Message", feedId |-> Undefined,
     timestamp |-> Undefined, confidence |-> Undefined, message |-> frame]

\* closedBy / closedIn remember, while the socket is closing, who called
\* close() on it and in which turn
NewConn == [state |-> "CONNECTING", failed |-> FALSE, closedBy |-> "none",
            closedIn |-> "none"]
ClosedConn == [state |-> "CLOSED", failed |-> FALSE, closedBy |-> "none",
               closedIn |-> "none"]

\* a close() that has no effect on a socket that is still connecting
Close_OnlyOpen(cs, c, by, op) ==
    IF c # 0 /\ cs[c].state = "OPEN"
    THEN [cs EXCEPT ![c] = [state |-> "CLOSING", failed |-> FALSE,
                            closedBy |-> by, closedIn |-> op]]
    ELSE cs

\* ws.close(): only a connecting or open socket starts closing; closing a
\* connecting socket fails the connection (error, then close, are fired later)
Close(cs, c, by, op) ==
    IF c # 0 /\ cs[c].state \in {"CONNECTING", "OPEN"}
    THEN [cs EXCEPT ![c] = [state |-> "CLOSING",
                            failed |-> (cs[c].state = "CONNECTING"),
                            closedBy |-> by, closedIn |-> op]]
    ELSE cs

\* S = [wsEndpoint, wsConnected, socket, effectWs, conns]
SocketState == [wsEndpoint |-> wsEndpoint, wsConnected |-> wsConnected,
                socket |-> socket, effectWs |-> effectWs, conns |-> conns]

\* a cleanup that forgets the connection without closing it
Cleanup_KeepsOpen(S, op) ==
    IF S.effectWs # 0
    THEN [S EXCEPT !.socket = 0, !.wsConnected = FALSE]
    ELSE S

\* the effect's cleanup function
Cleanup(S, op) ==
    IF S.effectWs # 0
    THEN [S EXCEPT !.conns = Close(@, S.effectWs, "cleanup", op),
                   !.socket = 0, !.wsConnected = FALSE]
    ELSE S

\* the effect body for endpoint ep
Effect(S, ep, throws) ==
    IF throws
    THEN [S EXCEPT !.effectWs = 0]
    ELSE [S EXCEPT !.conns = Append(@, NewConn),
                   !.effectWs = Len(S.conns) + 1,
                   !.socket = Len(S.conns) + 1]

\* setWsEndpoint(ep) and the re-render: the dependency changed, so the old
\* effect is cleaned up and the effect runs again
setWsEndpoint(S, ep, throws, op) ==
    IF ep = S.wsEndpoint
    THEN S
    ELSE Effect(Cleanup([S EXCEPT !.wsEndpoint = ep], op), ep, throws)

\* conn, closedBy, closedIn, closedConnecting: the connection whose handler
\* ran in the turn, and how it had been closed before; threw: new WebSocket
\* threw in the turn (and the effect's catch logged it)
NoSocketOp == [op |-> "none", conn |-> 0, events |-> <<>>, toasts |-> <<>>,
               status |-> <<>>, closedBy |-> "none", closedIn |-> "none",
               closedConnecting |-> FALSE, frame |-> "", threw |-> FALSE]

\* no press of the toggle since the operator last set the endpoint
NotToggled == "<not toggled>"

SocketFinish(S, tm, op) ==
    /\ Len(S.conns) <= MaxConns
    /\ Len(tm) <= MaxTimers
    /\ wsEndpoint' = S.wsEndpoint
    /\ wsConnected' = S.wsConnected
    /\ socket' = S.socket
    /\ effectWs' = S.effectWs
    /\ conns' = S.conns
    /\ timers' = tm
    /\ slast' = op
    /\ toggledFrom' =
          CASE op.op = "handleWsEndpointChange" -> NotToggled
            [] op.op = "handleConnectToggle" /\ Len(tm) > Len(timers)
                                             /\ timers = <<>> -> wsEndpoint
            [] OTHER -> toggledFrom
    /\ UNCHANGED <<wsMounted, notSocket>>

\* Terminal is mounted: the effect ran for the default endpoint
SocketInit ==
    /\ wsEndpoint = DefaultWsEndpoint
    /\ wsConnected = FALSE
    /\ socket = 1
    /\ effectWs = 1
    /\ conns = <<NewConn>>
    /\ timers = <<>>
    /\ wsMounted = TRUE
    /\ toggledFrom = NotToggled
    /\ slast = NoSocketOp

handleWsEndpointChange(value) ==
    /\ wsMounted
    /\ value # wsEndpoint
    /\ \E throws \in WebSocketThrows(value) :
          SocketFinish(setWsEndpoint(SocketState, value, throws,
                                     "handleWsEndpointChange"),
                       timers,
                       [NoSocketOp EXCEPT !.op = "handleWsEndpointChange",
                                          !.threw = throws])

handleConnectToggle ==
    /\ wsMounted
    /\ IF wsConnected /\ socket # 0
       THEN SocketFinish(
                [SocketState EXCEPT
                    !.conns = Close(@, socket, "socket.close",
                                    "handleConnectToggle"),
                    !.socket = 0, !.wsConnected = FALSE],
                timers,
                [NoSocketOp EXCEPT !.op = "handleConnectToggle"])
       ELSE \E throws \in WebSocketThrows("") :
                SocketFinish(
                    setWsEndpoint(SocketState, "", throws,
                                  "handleConnectToggle"),
                    Append(timers, wsEndpoint),
                    [NoSocketOp EXCEPT !.op = "handleConnectToggle",
                                       !.threw = throws /\ wsEndpoint # ""])

\* the callback of setTimeout(() => setWsEndpoint(endpoint), 0)
TimerFires ==
    /\ timers # <<>>
    /\ IF wsMounted
       THEN \E throws \in WebSocketThrows(Head(timers)) :
                SocketFinish(
                    setWsEndpoint(SocketState, Head(timers), throws,
                                  "TimerFires"),
                    Tail(timers),
                    [NoSocketOp EXCEPT !.op = "TimerFires",
                                       !.threw = throws
                                                 /\ Head(timers) # wsEndpoint])
       ELSE SocketFinish(SocketState, Tail(timers),
                         [NoSocketOp EXCEPT !.op = "TimerFires"])

\* Terminal unmounts: the effect's cleanup runs
SocketUnmount ==
    /\ wsMounted
    /\ wsMounted' = FALSE
    /\ LET S == Cleanup(SocketState, "unmount")
       IN  /\ wsEndpoint' = S.wsEndpoint
           /\ wsConnected' = S.wsConnected
           /\ socket' = S.socket
           /\ effectWs' = S.effectWs
           /\ conns' = S.conns
    /\ slast' = [NoSocketOp EXCEPT !.op = "unmount"]
    /\ UNCHANGED <<timers, toggledFrom, notSocket>>

\* setWsConnected called from a handler: a state update of an unmounted
\* component is dropped
HandlerStatus(S, calls) ==
    IF wsMounted /\ calls # <<>>
    THEN [S EXCEPT !.wsConnected = calls[Len(calls)]]
    ELSE S

\* what ws.onmessage does with one frame
onmessage(frame) ==
    LET parsed == JSONparse(frame)
    IN  IF ~parsed.ok
        THEN [events |-> <<RawMessage(frame)>>, toasts |-> <<>>]
        ELSE IF PropertyReadThrows(parsed.value)
        THEN [events |-> <<parsed.value, RawMessage(frame)>>, toasts |-> <<>>]
        ELSE [events |-> <<parsed.value>>,
              toasts |-> <<IF parsed.value.event # Undefined
                           THEN parsed.value.event ELSE "WebSocket event">>]

\* the handshake of connection c succeeds: ws.onopen
ConnOpen(c) ==
    /\ c \in 1..Len(conns)
    /\ conns[c].state = "CONNECTING"
    /\ SocketFinish(
           HandlerStatus([SocketState EXCEPT !.conns[c].state = "OPEN"],
                         <<TRUE>>),
           timers,
           [NoSocketOp EXCEPT !.op = "onopen", !.conn = c,
                              !.toasts = <<"WebSocket Connected">>,
                              !.status = <<TRUE>>])

\* a frame arrives on the open connection c: ws.onmessage
ConnMessage(c, frame) ==
    /\ c \in 1..Len(conns)
    /\ conns[c].state = "OPEN"
    /\ LET r == onmessage(frame)
       IN  SocketFinish(SocketState, timers,
                        [NoSocketOp EXCEPT !.op = "onmessage", !.conn = c,
                                           !.frame = frame,
                                           !.events = r.events,
                                           !.toasts = r.toasts])

\* handlers that open a new connection when the old one has ended
ConnClosed_Reconnects(c, withError) ==
    /\ c \in 1..Len(conns)
    /\ conns[c].state \in {"CONNECTING", "OPEN", "CLOSING"}
    /\ conns[c].state = "CONNECTING" => withError
    /\ conns[c].state = "CLOSING" => (withError <=> conns[c].failed)
    /\ SocketFinish(
           Effect(HandlerStatus([SocketState EXCEPT !.conns[c] = ClosedConn],
                                <<FALSE>>), wsEndpoint, FALSE),
           timers,
           [NoSocketOp EXCEPT
               !.op = IF withError THEN "onerror+onclose" ELSE "onclose",
               !.conn = c,
               !.toasts = IF withError
                          THEN <<"WebSocket Error", "WebSocket Disconnected">>
                          ELSE <<"WebSocket Disconnected">>,
               !.status = IF withError THEN <<FALSE, FALSE>> ELSE <<FALSE>>])

\* connection c ends: a failed handshake, a dropped or closed connection, or
\* the end of a close() started earlier; ws.onerror runs first when the
\* connection failed, then ws.onclose
ConnClosed(c, withError) ==
    /\ c \in 1..Len(conns)
    /\ conns[c].state \in {"CONNECTING", "OPEN", "CLOSING"}
    /\ conns[c].state = "CONNECTING" => withError
    /\ conns[c].state = "CLOSING" => (withError <=> conns[c].failed)
    /\ LET calls == IF withError THEN <<FALSE, FALSE>> ELSE <<FALSE>>
           tts == IF withError
                  THEN <<"WebSocket Error", "WebSocket Disconnected">>
                  ELSE <<"WebSocket Disconnected">>
       IN  SocketFinish(
               HandlerStatus([SocketState EXCEPT !.conns[c] = ClosedConn],
                             calls),
               timers,
               [op |-> IF withError THEN "onerror+onclose" ELSE "onclose",
                conn |-> c, events |-> <<>>, toasts |-> tts,
                status |-> calls, closedBy |-> conns[c].closedBy,
                closedIn |-> conns[c].closedIn,
                closedConnecting |-> conns[c].state = "CLOSING"
                                     /\ conns[c].failed,
                frame |-> "", threw |-> FALSE])

SocketNext ==
    \/ \E value \in WsEndpointInputs : handleWsEndpointChange(value)
    \/ handleConnectToggle
    \/ TimerFires
    \/ SocketUnmount
    \/ \E c \in 1..MaxConns : ConnOpen(c)
    \/ \E c \in 1..MaxConns, frame \in WsFrames : ConnMessage(c, frame)
    \/ \E c \in 1..MaxConns, withError \in BOOLEAN : ConnClosed(c, withError)

(***************************************************************************)
(* The bus: both adapters dispatch 'detectionEvent' on document            *)
(***************************************************************************)
\* the subscribers: handlers registered with document.addEventListener.
\* "once" removes itself in its handler.
Subscribers == {"log", "once", "audit"}
SelfRemoving == {"once"}

Range(f) == { f[i] : i \in DOMAIN f }
Remove(ls, h) == SelectSeq(ls, LAMBDA x : x # h)

\* B = [listeners, inbox, deliveries]: the handler of subscriber h is called
\* with event e
Handler(B, h, e) ==
    [B EXCEPT !.inbox[h] = Append(@, e),
              !.listeners = IF h \in SelfRemoving THEN Remove(@, h) ELSE @,
              !.deliveries[Len(B.deliveries)].received = Append(@, h)]

\* a dispatch that walks the live listener list by position
RECURSIVE InvokeLive(_, _, _)
InvokeLive(B, e, i) ==
    IF i > Len(B.listeners)
    THEN B
    ELSE InvokeLive(Handler(B, B.listeners[i], e), e, i + 1)

\* the DOM's inner invoke: the listeners are walked in a copy of the list
\* taken when the dispatch starts; a listener removed in the meantime is not
\* called
RECURSIVE Invoke(_, _, _, _)
Invoke(B, e, snapshot, i) ==
    IF i > Len(snapshot)
    THEN B
    ELSE IF snapshot[i] \in Range(B.listeners)
    THEN Invoke(Handler(B, snapshot[i], e), e, snapshot, i + 1)
    ELSE Invoke(B, e, snapshot, i + 1)

dispatchEvent_LiveList(B, e) ==
    InvokeLive([B EXCEPT !.deliveries =
                    Append(@, [event |-> e, registered |-> B.listeners,
                               received |-> <<>>])],
               e, 1)

\* document.dispatchEvent(new CustomEvent('detectionEvent', {detail})):
\* synchronous, every listener is called before it returns
dispatchEvent(B, e) ==
    Invoke([B EXCEPT !.deliveries =
                Append(@, [event |-> e, registered |-> B.listeners,
                           received |-> <<>>])],
           e, B.listeners, 1)

\* the events of one adapter turn, dispatched one after the other
RECURSIVE dispatchAll(_, _)
dispatchAll(B, events) ==
    IF events = <<>>
    THEN B
    ELSE dispatchAll(dispatchEvent(B, Head(events)), Tail(events))

NoBusOp == [op |-> "none", deliveries |-> <<>>]

\* no listener is registered when the page is mounted
BusInit ==
    /\ listeners = <<>>
    /\ inbox = [h \in Subscribers |-> <<>>]
    /\ published = <<>>
    /\ blast = NoBusOp

\* document.addEventListener('detectionEvent', h): a listener already in the
\* list is not added again
addEventListener(h) ==
    /\ h \notin Range(listeners)
    /\ listeners' = Append(listeners, h)
    /\ blast' = [NoBusOp EXCEPT !.op = "addEventListener"]
    /\ UNCHANGED <<inbox, published, notBus>>

\* document.removeEventListener('detectionEvent', h), outside a dispatch
removeEventListener(h) ==
    /\ h \in Range(listeners)
    /\ listeners' = Remove(listeners, h)
    /\ blast' = [NoBusOp EXCEPT !.op = "removeEventListener"]
    /\ UNCHANGED <<inbox, published, notBus>>

BusFinish(events, op) ==
    LET B == dispatchAll([listeners |-> listeners, inbox |-> inbox,
                          deliveries |-> <<>>], events)
    IN  /\ Len(published) + Len(events) <= MaxPublished
        /\ listeners' = B.listeners
        /\ inbox' = B.inbox
        /\ published' = published \o events
        /\ blast' = [op |-> op, deliveries |-> B.deliveries]
        /\ UNCHANGED notBus

\* requests and frames that reach the adapters while subscribers listen
BusRequests ==
    { req \in Requests :
        /\ req.input = DefaultApiEndpoint
        /\ req.init # NoInit
        /\ req.init.body \in {"{\"feedId\":\"2\"}", "not json"} }
BusFrames == {"null", "not json"}

\* the fetch override dispatches the payload of an intercepted request
PublishFetch(req) ==
    BusFinish(Call(windowFetch, req).events, "fetch")

\* ws.onmessage dispatches the payload of a frame, or the raw message
PublishMessage(frame) ==
    BusFinish(onmessage(frame).events, "onmessage")

BusNext ==
    \/ \E h \in Subscribers : addEventListener(h)
    \/ \E h \in Subscribers : removeEventListener(h)
    \/ \E req \in BusRequests : PublishFetch(req)
    \/ \E frame \in BusFrames : PublishMessage(frame)

(***************************************************************************)
(* Index: feed list, active feeds and the terminal log                     *)
(***************************************************************************)
mockBackendUpdates ==
    << [id |-> "1", name |-> "Front Door", detectionMode |-> "none"],
       [id |-> "2", name |-> "Back Yard", detectionMode |-> "none"] >>

\* names the operator can give a feed
FeedNames == {"Gate"}
\* mode ids VideoFeed's select can pass to onChangeDetectionMode
SelectableModes == {"none", "motion", "entrance"}
\* mockDetectionModes: id -> name
ModeName(modeId) ==
    CASE modeId = "none"    -> "None"
      [] modeId = "motion"  -> "Motion Detection"
      [] modeId = "person"  -> "Person Detection"
      [] modeId = "vehicle" -> "Vehicle Detection"
      [] modeId = "object"  -> "Object Detection"
      [] OTHER              -> Undefined

\* `[${timestamp}] ${message}`
Entry(t, message) == <<"[", t, "] ", message>>

\* a log that puts the newest entry first
addTerminalMessage_Prepend(prev, t, message) == <<Entry(t, message)>> \o prev

\* addTerminalMessage: setTerminalOutput(prev => [...prev, entry])
addTerminalMessage(prev, t, message) == Append(prev, Entry(t, message))

RECURSIVE addTerminalMessages(_, _, _)
addTerminalMessages(prev, t, messages) ==
    IF messages = <<>>
    THEN prev
    ELSE addTerminalMessages(addTerminalMessage(prev, t, Head(messages)), t,
                             Tail(messages))

FeedIndex(fs, id) ==
    IF \E i \in 1..Len(fs) : fs[i].id = id
    THEN CHOOSE i \in 1..Len(fs) :
            fs[i].id = id /\ \A j \in 1..(i - 1) : fs[j].id # id
    ELSE 0

Filter(seq, id) ==
    LET F[i \in 0..Len(seq)] ==
            IF i = 0 THEN <<>>
            ELSE IF seq[i] # id THEN Append(F[i-1], seq[i]) ELSE F[i-1]
    IN  F[Len(seq)]

Includes(seq, id) == \E i \in 1..Len(seq) : seq[i] = id

\* the mount effect ran: setActiveFeeds(["1"]), the first terminal message,
\* and one timer per mock feed
IndexInit ==
    /\ feeds = <<>>
    /\ now = 0
    /\ terminalOutput = <<Entry(0, "System initialized. Ready for detection.")>>
    /\ activeFeeds = <<"1">>
    /\ currentFeedIndex = 0
    /\ pendingFeeds = mockBackendUpdates
    /\ pendingDetections = <<>>
    /\ ilast = [op |-> "mount",
                messages |-> <<"System initialized. Ready for detection.">>]

\* every Index turn: the messages it passed to addTerminalMessage are logged
IndexFinish(op, messages) ==
    /\ terminalOutput' = addTerminalMessages(terminalOutput, now, messages)
    /\ Len(terminalOutput') <= MaxLog
    /\ ilast' = [op |-> op, messages |-> messages]
    /\ UNCHANGED <<now, notIndex>>

\* the clock advances between turns
Tick ==
    /\ now < MaxClock
    /\ now' = now + 1
    /\ ilast' = [op |-> "tick", messages |-> <<>>]
    /\ UNCHANGED <<feeds, terminalOutput, activeFeeds, currentFeedIndex,
                   pendingFeeds, pendingDetections, notIndex>>

\* a handleNewFeed that does not look for the id
handleNewFeed_AlwaysAppends ==
    /\ pendingFeeds # <<>>
    /\ feeds' = Append(feeds, Head(pendingFeeds))
    /\ IndexFinish("handleNewFeed",
           << <<"New camera feed connected: ", Head(pendingFeeds).name>> >>)
    /\ pendingFeeds' = Tail(pendingFeeds)
    /\ UNCHANGED <<activeFeeds, currentFeedIndex, pendingDetections>>

\* a mock feed's timer fires: handleNewFeed(feed)
handleNewFeed ==
    /\ pendingFeeds # <<>>
    /\ LET newFeed == Head(pendingFeeds)
           feedExists == FeedIndex(feeds, newFeed.id) # 0
       IN  /\ feeds' = IF feedExists THEN feeds ELSE Append(feeds, newFeed)
           /\ IndexFinish("handleNewFeed",
                  IF feedExists THEN <<>>
                  ELSE << <<"New camera feed connected: ", newFeed.name>> >>)
    /\ pendingFeeds' = Tail(pendingFeeds)
    /\ UNCHANGED <<activeFeeds, currentFeedIndex, pendingDetections>>

updateFeedName(id, newName) ==
    /\ FeedIndex(feeds, id) # 0
    /\ feeds' = [i \in 1..Len(feeds) |->
                    IF feeds[i].id = id
                    THEN [feeds[i] EXCEPT !.name = newName] ELSE feeds[i]]
    /\ IndexFinish("updateFeedName",
                   << <<"Camera feed ", id, " renamed to: ", newName>> >>)
    /\ UNCHANGED <<activeFeeds, currentFeedIndex, pendingFeeds,
                   pendingDetections>>

\* a toggleFeed without the two limits
toggleFeed_NoLimits(id) ==
    /\ IF Includes(activeFeeds, id)
       THEN activeFeeds' = Filter(activeFeeds, id)
       ELSE activeFeeds' = Append(activeFeeds, id)
    /\ currentFeedIndex' = 0
    /\ IndexFinish("toggleFeed", <<>>)
    /\ UNCHANGED <<feeds, pendingFeeds, pendingDetections>>

\* toggleFeed(id): the two rejections return before setCurrentFeedIndex(0)
toggleFeed(id) ==
    /\ IF Includes(activeFeeds, id)
       THEN IF Len(activeFeeds) = 1
            THEN UNCHANGED <<activeFeeds, currentFeedIndex>>
            ELSE /\ activeFeeds' = Filter(activeFeeds, id)
                 /\ currentFeedIndex' = 0
       ELSE IF Len(activeFeeds) >= 5
            THEN UNCHANGED <<activeFeeds, currentFeedIndex>>
            ELSE /\ activeFeeds' = Append(activeFeeds, id)
                 /\ currentFeedIndex' = 0
    /\ IndexFinish("toggleFeed", <<>>)
    /\ UNCHANGED <<feeds, pendingFeeds, pendingDetections>>

\* the Sidebar switch of a listed feed: onCheckedChange
onToggleFeed(id) == FeedIndex(feeds, id) # 0 /\ toggleFeed(id)

\* the ids toggleFeed is called with when the backend announces six feeds
ToggleIds == {"1", "2", "3", "4", "5", "6"}

\* VideoFeed's mode select, for the displayed feed
changeDetectionMode(feedId, modeId) ==
    /\ FeedIndex(feeds, feedId) # 0
    /\ currentFeedIndex < Len(activeFeeds)
    /\ activeFeeds[currentFeedIndex + 1] = feedId
    /\ LET feed == feeds[FeedIndex(feeds, feedId)]
           known == ModeName(modeId) # Undefined
       IN  /\ feeds' = [i \in 1..Len(feeds) |->
                           IF feeds[i].id = feedId
                           THEN [feeds[i] EXCEPT !.detectionMode = modeId]
                           ELSE feeds[i]]
           /\ pendingDetections' =
                 IF known /\ modeId # "none"
                 THEN Append(pendingDetections, feed.name)
                 ELSE pendingDetections
           /\ Len(pendingDetections') <= MaxTimers
           /\ IndexFinish("changeDetectionMode",
                  IF known
                  THEN << <<"Set detection mode for ", feed.name, " to ",
                            ModeName(modeId)>> >>
                  ELSE <<>>)
    /\ UNCHANGED <<activeFeeds, currentFeedIndex, pendingFeeds>>

\* the 2 s timer of changeDetectionMode fires
DetectionResults ==
    /\ pendingDetections # <<>>
    /\ pendingDetections' = Tail(pendingDetections)
    /\ IndexFinish("DetectionResults",
           << <<"Detection results for ", Head(pendingDetections), ": ",
                "person (87%), backpack (63%)">> >>)
    /\ UNCHANGED <<feeds, activeFeeds, currentFeedIndex, pendingFeeds>>

\* a next that does not wrap around
handleNextFeed_NoWrap ==
    /\ currentFeedIndex' = IF Len(activeFeeds) > 1
                           THEN currentFeedIndex + 1
                           ELSE currentFeedIndex
    /\ IndexFinish("handleNextFeed", <<>>)
    /\ UNCHANGED <<feeds, activeFeeds, pendingFeeds, pendingDetections>>

handleNextFeed ==
    /\ currentFeedIndex' = IF Len(activeFeeds) > 1
                           THEN (currentFeedIndex + 1) % Len(activeFeeds)
                           ELSE currentFeedIndex
    /\ IndexFinish("handleNextFeed", <<>>)
    /\ UNCHANGED <<feeds, activeFeeds, pendingFeeds, pendingDetections>>

handlePrevFeed ==
    /\ currentFeedIndex' =
          IF Len(activeFeeds) > 1
          THEN (currentFeedIndex - 1 + Len(activeFeeds)) % Len(activeFeeds)
          ELSE currentFeedIndex
    /\ IndexFinish("handlePrevFeed", <<>>)
    /\ UNCHANGED <<feeds, activeFeeds, pendingFeeds, pendingDetections>>

IndexNext ==
    \/ Tick
    \/ handleNewFeed
    \/ \E id \in FeedIds, newName \in FeedNames : updateFeedName(id, newName)
    \/ \E id \in FeedIds : onToggleFeed(id)
    \/ \E id \in FeedIds, modeId \in SelectableModes :
          changeDetectionMode(id, modeId)
    \/ DetectionResults
    \/ handleNextFeed
    \/ handlePrevFeed

\* what a backend announces: the mock feeds, again and again, also under
\* another name
Announcements ==
    Range(mockBackendUpdates)
        \cup { [mockBackendUpdates[1] EXCEPT !.name = n] : n \in FeedNames }

\* the backend announces a feed: a callback calling handleNewFeed(feed) is
\* scheduled
Announce(feed) ==
    /\ Len(pendingFeeds) < MaxAnnounced
    /\ pendingFeeds' = Append(pendingFeeds, feed)
    /\ IndexFinish("announce", <<>>)
    /\ UNCHANGED <<feeds, activeFeeds, currentFeedIndex, pendingDetections>>

\* announcements, their callbacks, and renaming
AnnounceNext ==
    \/ \E feed \in Announcements : Announce(feed)
    \/ handleNewFeed
    \/ \E id \in FeedIds, newName \in FeedNames : updateFeedName(id, newName)

\* toggleFeed called with any id, and the feed navigation
ToggleNext ==
    \/ \E id \in ToggleIds : toggleFeed(id)
    \/ handleNextFeed
    \/ handlePrevFeed

(***************************************************************************)
(* Specifications: the whole page, and each component on its own           *)
(***************************************************************************)
Init == SessionInit /\ FetchInit /\ SocketInit /\ IndexInit /\ ClassifyIdle
        /\ BusInit

Next == SessionNext \/ FetchNext \/ SocketNext \/ IndexNext \/ ClassifyNext
        \/ BusNext

Spec == Init /\ [][Next]_vars

SessionSpec == Init /\ [][SessionNext]_vars

\* the page as Index first renders it
PageInit == FirstFeedInit /\ FetchInit /\ SocketInit /\ IndexInit
            /\ ClassifyIdle /\ BusInit

FetchSpec == PageInit /\ [][FetchNext]_vars

SocketSpec == PageInit /\ [][SocketNext]_vars

IndexSpec == PageInit /\ [][IndexNext]_vars

\* the page, with a locator about to be classified
ClassifyPageInit ==
    FirstFeedInit /\ FetchInit /\ SocketInit /\ IndexInit /\ ClassifyInit
    /\ BusInit

ClassifySpec == ClassifyPageInit /\ [][ClassifyNext]_vars

BusSpec == PageInit /\ [][BusNext]_vars

ToggleSpec == PageInit /\ [][ToggleNext]_vars

AnnounceSpec == PageInit /\ [][AnnounceNext]_vars

(***************************************************************************)
(* Claims about the playback session (checked under SessionSpec)           *)
(***************************************************************************)

\* C1: a play() rejection with NotAllowedError (autoplay policy) never leaves
\* the session in the Error state, whichever path issued the play (the
\* load/retry effect, the auto-start of the classification effect, or
\* togglePlayback): right after the rejection is handled hasError is FALSE.
C1_AutoplayRejectionNeverError ==
    (vlast.op = "PlayRejected" /\ vlast.error = "NotAllowedError")
        => ~vf.hasError

\* C2: the result (success or failure) of a play attempt that a later locator
\* change or retry has superseded is ignored: the turn that delivers it
\* changes none of hasError, errorDetails, isLoading, isPlaying.
C2_StaleResultIgnored ==
    [][ (vlast'.op \in {"PlayResolved", "PlayRejected"} /\ vlast'.stale)
            => /\ vf'.hasError = vf.hasError
               /\ vf'.errorDetails = vf.errorDetails
               /\ vf'.isLoading = vf.isLoading
               /\ vf'.isPlaying = vf.isPlaying ]_vars

\* the turn recorded in r issued the command cmd to the media element
Issued(cmd, r) == \E i \in 1..Len(r.cmds) : r.cmds[i] = cmd

\* the turn asked the media element to load: by load(), or by creating the
\* element with its src
LoadRequested(r) == Issued("load", r) \/ r.fresh

\* C21: for a feed with an empty locator the session never issues a load or
\* play request to a media element, and it shows a "no source configured"
\* condition, which is not the load-failure Error state.
C21_EmptyLocatorNotLoaded ==
    vf.url = <<>>
        => /\ ~Issued("load", vlast) /\ ~Issued("play", vlast) /\ ~vlast.fresh
           /\ renderVideoContent(vf) = "no source configured"

\* load attempts in flight: the one of the rendered element, and those of
\* removed elements
InFlight == (IF media = "loading" THEN 1 ELSE 0) + detached

\* C22: the session never has two load attempts in flight at once: a locator
\* change or retry issued while a load is outstanding replaces that load.
C22_OneLoadInFlight == InFlight <= 1

\* What the code does guarantee: a turn that changes the locator or retries
\* leaves at most one load on the rendered element, whatever was outstanding
\* there before (load() and a new src restart the element's fetch).
RenderedElementReloads ==
    vlast.op \in {"SetFeed", "retryLoading"} /\ media # "unmounted"
        => media = "loading"

\* C32: loading never sticks: when the flag was set by a play from Paused and
\* the play completes successfully, with the load complete and nothing else
\* pending, the flag is cleared and the session shows Playing, not the
\* loading indicator.
C32_LoadingNeverSticks ==
    (/\ vlast.op = "PlayResolved"
     /\ vlast.origin = "toggle"
     /\ ~vlast.stale
     /\ media = "ready"
     /\ promises = <<>>)
        => (vf.isPlaying /\ ~vf.isLoading)

\* What the code does after a locator change or a retry: once the element
\* reports loadeddata the flag is cleared.
LoadedClearsLoading ==
    vlast.op = "handleVideoLoaded" => ~vf.isLoading

\* C34: in every reachable state the Error state excludes Playing and
\* Loading: the error flag is never true together with the playing flag or
\* the loading flag.
C34_ErrorExcludesPlayingAndLoading ==
    vf.hasError => (~vf.isPlaying /\ ~vf.isLoading)

\* C15: every load failure the media element reports (error code aborted,
\* network, decode, source-not-supported, or no code) puts the session in
\* Error with a non-empty diagnostic and clears the Loading flag.
C15_LoadFailureIsError ==
    vlast.op = "handleVideoError"
        => vf.hasError /\ vf.errorDetails # "" /\ ~vf.isLoading

\* a failure without code and without message was reported
C15_Witness ==
    /\ vlast.op = "handleVideoError"
    /\ vf.errorDetails = "Unknown error loading video"

\* C16: from any Error state, a retry increments retryCount by exactly one,
\* clears the error flag and the diagnostic, puts the session in Loading and
\* issues a new load request to the media element, the locator unchanged.
C16_RetryReloads ==
    [][ vlast'.op = "retryLoading"
            => /\ vf'.retryCount = vf.retryCount + 1
               /\ ~vf'.hasError /\ vf'.errorDetails = ""
               /\ vf'.isLoading
               /\ vf'.url = vf.url
               /\ LoadRequested(vlast') ]_vars

\* What retry does whenever the session shows a video or a stream.
RetryOfVideoReloads ==
    [][ (vlast'.op = "retryLoading" /\ vf.isVideoFeed)
            => /\ vf'.retryCount = vf.retryCount + 1
               /\ ~vf'.hasError /\ vf'.errorDetails = ""
               /\ vf'.isLoading
               /\ vf'.url = vf.url
               /\ Issued("load", vlast') ]_vars

LocatorChanged == vlast'.op = "SetFeed" /\ vf'.url # vf.url

\* the Loading flag is cleared only by the load's readiness or failure
LoadingUntilReported ==
    (vf.isLoading /\ ~vf'.isLoading)
        => vlast'.op \in {"handleVideoLoaded", "handleVideoError"}

\* C17: whenever the locator of a mounted session changes, from any state
\* including Error, the session issues a load request to the media element,
\* clears the error flag and the diagnostic, and is Loading until the load
\* reports readiness or failure.
C17_LocatorChangeReloads ==
    [][ /\ LocatorChanged
            => /\ LoadRequested(vlast')
               /\ ~vf'.hasError /\ vf'.errorDetails = ""
               /\ vf'.isLoading
        /\ LoadingUntilReported ]_vars

\* C17 as amended: the same, for a new locator that is a FileVideo or a
\* LiveStream (a StaticImage has no media element to load).
C17_VideoLocatorChangeReloads ==
    [][ /\ (LocatorChanged /\ SourceKind(vf') # "StaticImage")
            => /\ LoadRequested(vlast')
               /\ ~vf'.hasError /\ vf'.errorDetails = ""
               /\ vf'.isLoading
        /\ LoadingUntilReported ]_vars

\* the locator changed from the Error state to a video, which is loading
C17_Witness ==
    /\ vlast.op = "SetFeed" /\ vlast.fromError /\ vlast.fresh
    /\ SourceKind(vf) = "FileVideo"
    /\ media = "loading" /\ vf.isLoading /\ ~vf.hasError

\* C18: whenever a session whose locator is a LiveStream starts a load (on
\* mount, on a locator change from any prior state, or on retry), a play
\* command is issued to the media element without user action.
C18_LiveStreamAutoStarted ==
    (/\ vlast.op \in {"mount", "SetFeed", "retryLoading"}
     /\ SourceKind(vf) = "LiveStream"
     /\ LoadRequested(vlast))
        => Issued("play", vlast)

\* C19: a session whose locator is a FileVideo loops and is never
\* auto-started: whatever locators the session had before, the turn that
\* changes the locator to a FileVideo leaves looping enabled and issues no
\* play command.
C19_FileVideoNeverAutoStarted ==
    [][ (LocatorChanged /\ SourceKind(vf') = "FileVideo")
            => loop(vf') /\ ~Issued("play", vlast') ]_vars

\* What the code does guarantee: a FileVideo loops, and a session mounted
\* with a FileVideo issues no play command.
FileVideoLoopsAndMountsPaused ==
    SourceKind(vf) = "FileVideo"
        => /\ loop(vf)
           /\ vlast.op = "mount" => ~Issued("play", vlast)

\* C20: in Error and in Loading the play/pause toggle is unavailable or has
\* no effect: it changes Playing/Paused only when the session is in neither.
C20_ToggleOnlyWhenSettled ==
    [][ (vlast'.op = "togglePlayback" /\ (vf.hasError \/ vf.isLoading))
            => /\ vf'.isPlaying = vf.isPlaying
               /\ vlast'.cmds = <<>> ]_vars

\* What the code does guarantee: the toggle is unavailable in Error.
ToggleUnavailableInError ==
    [][ vlast'.op = "togglePlayback" => ~vf.hasError ]_vars

(***************************************************************************)
(* Claims about the classification (checked under ClassifySpec)            *)
(***************************************************************************)
Classified == sourceKind # NotClassified

VideoExtensions == {".mp4", ".webm", ".mov", ".avi", ".mkv"}
EndsInVideoExtension(l) == Len(l) > 0 /\ l[Len(l)] \in VideoExtensions
\* 192.168.1.20 or 192.168.1.20:8554
BareIPv4(l) ==
    \/ Len(l) = 1 /\ l[1] = "192.168.1.20"
    \/ Len(l) = 2 /\ l[1] = "192.168.1.20" /\ l[2] \in {":8554", ":8080"}

\* C12: every locator ending in .mp4 .webm .mov .avi or .mkv is FileVideo,
\* also when it matches a stream pattern; every bare IPv4 address with
\* optional port is LiveStream; the empty string is StaticImage.
C12_ExtensionIpEmpty ==
    Classified =>
        /\ EndsInVideoExtension(locator) => sourceKind = "FileVideo"
        /\ BareIPv4(locator) => sourceKind = "LiveStream"
        /\ locator = <<>> => sourceKind = "StaticImage"

\* a locator that is an rtsp:// URL and ends in .mkv was classified FileVideo
C12_Witness ==
    /\ locator = <<"rtsp://", "cam.local", ".mkv">>
    /\ sourceKind = "FileVideo"

\* the locator in lower case, letter by letter
LowerCaseVariant(l) ==
    [i \in 1..Len(l) |->
        CASE l[i] = "RTSP://" -> "rtsp://"
          [] l[i] = "HTTP://" -> "http://"
          [] l[i] = ".MP4"    -> ".mp4"
          [] l[i] = "/STREAM" -> "/stream"
          [] l[i] = "/Clip"   -> "/clip"
          [] OTHER            -> l[i]]

\* nothing in the locator suggests a video or a stream: no video extension,
\* no rtsp:// or rtmp:// prefix, no "stream" or "video_feed" in it, no IPv4
\* address and no port
NoStreamHint(l) ==
    LET u == LowerCaseVariant(l)
    IN  /\ ~EndsInVideoExtension(u)
        /\ Len(u) > 0 => u[1] \notin {"rtsp://", "rtmp://"}
        /\ \A i \in 1..Len(u) :
              u[i] \notin {"/stream", "/upstream.png", "/video_feed",
                          "192.168.1.20", ":8554", ":8080"}

\* C13: a locator with no recognized video extension, no rtsp:// or rtmp://
\* prefix, no "stream" or "video_feed" substring and no host:port or bare-IP
\* pattern is StaticImage; an HTTP(S) URL is LiveStream only when its path or
\* host suggests a stream.
C13_NoHintIsStaticImage ==
    (Classified /\ NoStreamHint(locator)) => sourceKind = "StaticImage"

\* What the classification does for locators without hint: StaticImage
\* unless the locator contains rtsp://, rtmp://, http:// or https:// anywhere.
NoHintNoSchemeIsStaticImage ==
    (/\ Classified /\ NoStreamHint(locator)
     /\ \A i \in 1..Len(locator) :
           LowerCaseVariant(locator)[i]
               \notin {"rtsp://", "rtmp://", "http://", "https://"})
        => sourceKind = "StaticImage"

InterceptedPost == flast.op = "fetch" /\ flast.armed /\ flast.matched

\* C3: while armed, a POST whose path equals the configured path and whose
\* body is a JSON-parsable string yields exactly one detection event carrying
\* the parsed payload, the synthesized 200 response, and no call of the
\* original fetch.
C3_JsonPostIntercepted ==
    (/\ InterceptedPost
     /\ typeofString(flast.req.init.body)
     /\ JSONparse(flast.req.init.body).ok)
        => /\ flast.events = <<JSONparse(flast.req.init.body).value>>
           /\ flast.response = "synthesized 200"
           /\ flast.forwarded = <<>>

\* C4: while armed, a POST to the configured path whose body is a string that
\* is not valid JSON is swallowed: synthesized 200 response, no detection
\* event, no call of the original fetch.
C4_MalformedPostSwallowed ==
    (/\ InterceptedPost
     /\ typeofString(flast.req.init.body)
     /\ ~JSONparse(flast.req.init.body).ok)
        => /\ flast.events = <<>>
           /\ flast.response = "synthesized 200"
           /\ flast.forwarded = <<>>

\* C28: every event delivered to the subscribers has an event name and a
\* timestamp: a payload without them gets the channel's generic label and
\* the receipt time.
C28_EventsNamedAndStamped ==
    \A i \in 1..Len(flast.events) :
        /\ flast.events[i].event # Undefined
        /\ flast.events[i].timestamp # Undefined

\* C33: the adapter never both dispatches a detection event for a request
\* and forwards that request to the original fetch: an event is dispatched
\* only if the caller receives the synthesized response.
C33_EventOnlyWithSynthesizedResponse ==
    (flast.op = "fetch" /\ flast.events # <<>>)
        => /\ flast.response = "synthesized 200"
           /\ flast.forwarded = <<>>

\* What holds: a request answered with the synthesized response dispatched
\* exactly one event and was not forwarded.
SynthesizedResponseHasOneEvent ==
    (flast.op = "fetch" /\ flast.response = "synthesized 200")
        => (Len(flast.events) = 1 /\ flast.forwarded = <<>>)

\* C9: disarming restores window.fetch to the function installed before
\* arming (the browser's own fetch), and across arm / re-arm / disarm every
\* request is handled exactly once: answered with the synthesized response,
\* or forwarded exactly once to the original fetch; never lost, never twice.
C9_RestoredAndHandledOnce ==
    /\ ~armed => windowFetch = <<>>
    /\ flast.op = "fetch" =>
          \/ flast.response = "synthesized 200" /\ flast.forwarded = <<>>
          \/ flast.response = "network" /\ flast.forwarded = <<flast.req>>

\* The parts of C9 the override does keep: the restore, and no request is
\* ever forwarded twice or both answered and forwarded.
FetchRestoredNeverDuplicated ==
    /\ ~armed => windowFetch = <<>>
    /\ armed => windowFetch = <<apiEndpoint>> /\ originalFetch = <<>>
    /\ flast.op = "fetch" =>
          /\ Len(flast.forwarded) <= 1
          /\ flast.response = "synthesized 200" => flast.forwarded = <<>>
          /\ flast.response = "network" => flast.forwarded = <<flast.req>>

\* C10: while armed, a request that does not match the configured path, or
\* is not a POST, is forwarded to the original fetch with input and init
\* unmodified, the caller gets that call's result, and no detection event is
\* emitted.
C10_NonMatchingForwarded ==
    (flast.op = "fetch" /\ flast.armed /\ ~flast.matched)
        => /\ flast.forwarded = <<flast.req>>
           /\ flast.response = "network"
           /\ flast.events = <<>>

\* the method of the request fetch(input, init) makes: GET when init names
\* none, and the standard methods are upper-cased
RequestMethod(init) ==
    CASE init.method = Undefined -> "GET"
      [] init.method = "post"    -> "POST"
      [] OTHER                   -> init.method

\* the path component of the URL the request goes to: an absolute URL's own
\* path, any other URL resolved against the page's URL (Origin and "/")
RequestPath(url) ==
    CASE startsWithHttp(url)                 -> ParseURL(url).pathname
      [] url = <<"data.json">>               -> <<"/data.json">>
      [] url = <<"detection_output">>        -> <<"/detection_output">>
      [] url = <<"data:application/json,{}">> -> <<"application/json,{}">>
      [] OTHER                               -> ParseURL(Origin \o url).pathname

\* C11: while armed, a request is treated as a detection delivery if and only
\* if its method is POST and the path component of its URL equals the
\* configured path; scheme and host of the URL play no role.
C11_DeliveryIffPostToPath ==
    (flast.op = "fetch" /\ flast.armed)
        => (flast.matched <=> /\ RequestMethod(flast.req.init) = "POST"
                              /\ RequestPath(flast.req.input) = flast.endpoint)

\* What the override does decide: for a URL its URL constructor accepts and
\* a method spelled POST, the match is by path alone.
PathMatchIgnoresOrigin ==
    (/\ flast.op = "fetch" /\ flast.armed
     /\ flast.response # "TypeError"
     /\ flast.req.init.method # "post")
        => (flast.matched <=> /\ flast.req.init.method = "POST"
                              /\ RequestPath(flast.req.input) = flast.endpoint)

(***************************************************************************)
(* Claims about the WebSocket effect (checked under SocketSpec)            *)
(***************************************************************************)

\* C5: every inbound frame results in exactly one dispatched detection event:
\* the parsed payload when the frame is valid JSON (any JSON value), one
\* fallback raw-message event when it is not; never zero, never two.
C5_OneEventPerFrame ==
    slast.op = "onmessage" =>
        /\ Len(slast.events) = 1
        /\ slast.events[1] = IF JSONparse(slast.frame).ok
                             THEN JSONparse(slast.frame).value
                             ELSE RawMessage(slast.frame)

\* a handler of a connection ran and published nothing: no event, no toast,
\* no connection-status update
HandlerSilent ==
    slast.events = <<>> /\ slast.toasts = <<>> /\ slast.status = <<>>

\* C6: after the operator toggles while the socket is still connecting, the
\* aborted attempt delivers no event and no status notification (open, error
\* or close toast, or connection-status update).
C6_AbortedAttemptSilent ==
    (/\ slast.conn # 0
     /\ slast.closedIn = "handleConnectToggle"
     /\ slast.closedConnecting)
        => HandlerSilent

\* C7: after the effect's cleanup (unmount or endpoint reconfiguration) closed
\* a connection, none of that connection's handlers publishes an event, shows
\* a notification or updates the connection status.
C7_TornDownSilent ==
    (slast.conn # 0 /\ slast.closedBy = "cleanup") => HandlerSilent

\* C27: every detection event the adapter dispatches carries a feedId, also
\* for a payload that omits feedId and for the raw-message fallback.
C27_EventsCarryFeedId ==
    \A i \in 1..Len(slast.events) : slast.events[i].feedId # Undefined

\* connections that are connecting or open
Live(cs) == { c \in 1..Len(cs) : cs[c].state \in {"CONNECTING", "OPEN"} }
Ended(cs) == { c \in 1..Len(cs) : cs[c].state \in {"CLOSING", "CLOSED"} }

\* C23: at every moment at most one connection is connecting or open, across
\* endpoint edits, toggles and timers; a new attempt is created only after
\* close() was called on every earlier one; a closed attempt, also one closed
\* while connecting, never becomes connecting or open again.
C23_OneLiveConnection ==
    [][ /\ Cardinality(Live(conns)) <= 1
        /\ Cardinality(Live(conns')) <= 1
        /\ Len(conns') > Len(conns) => 1..Len(conns) \subseteq Ended(conns')
        /\ Ended(conns) \subseteq Ended(conns') ]_socketVars

\* an attempt closed while it was connecting has reported its end, and a
\* later connection is connecting or open
C23_Witness ==
    /\ slast.conn # 0
    /\ slast.closedConnecting
    /\ \E c \in Live(conns) : c > slast.conn

\* C24: the status becomes Connected only by the onopen of the current
\* connection, with the one notification 'WebSocket Connected'; a transport
\* error leaves the status not connected and notifies 'WebSocket Error'; a
\* normal close leaves it not connected (Disconnected) with the one
\* notification 'WebSocket Disconnected'; an endpoint the WebSocket
\* constructor rejects raises nothing: the component stays mounted, not
\* connected, without a connection.
C24_StatusFollowsTransport ==
    [][ /\ (wsConnected' /\ ~wsConnected)
            => /\ slast'.op = "onopen"
               /\ slast'.conn = socket'
               /\ slast'.toasts = <<"WebSocket Connected">>
        /\ slast'.op = "onerror+onclose"
            => /\ ~wsConnected'
               /\ slast'.toasts[1] = "WebSocket Error"
        /\ slast'.op = "onclose"
            => /\ ~wsConnected'
               /\ slast'.toasts = <<"WebSocket Disconnected">>
        /\ slast'.threw
            => /\ wsMounted'
               /\ ~wsConnected'
               /\ effectWs' = 0 /\ socket' = 0
               /\ Len(conns') = Len(conns) ]_socketVars

\* the operator typed an address the constructor rejects; the cleanup had
\* closed the previous connection
C24_Witness ==
    /\ slast.threw
    /\ wsEndpoint = "localhost:8080"
    /\ \E c \in 1..Len(conns) : conns[c].closedBy = "cleanup"

\* the status the operator sees: Connected, Connecting, or neither
\* (Disconnected or Errored)
ConnectionStatus ==
    IF wsConnected THEN "Connected"
    ELSE IF socket # 0 /\ conns[socket].state = "CONNECTING" THEN "Connecting"
    ELSE "Disconnected"

\* C25: a manual toggle when Connected or Connecting closes the existing
\* connection and starts no new attempt; when Disconnected or Errored it
\* starts exactly one new attempt, to the configured endpoint.
C25_ToggleClosesOrConnects ==
    [][ slast'.op = "handleConnectToggle"
        => IF ConnectionStatus \in {"Connected", "Connecting"}
           THEN /\ Live(conns') = {}
                /\ Len(conns') = Len(conns)
                /\ timers' = timers
           ELSE (Len(conns') - Len(conns)) + (Len(timers') - Len(timers)) = 1
      ]_socketVars

\* What the code does when Connected: the connection is closed, and no
\* attempt and no timer is started.
ToggleWhenConnectedCloses ==
    [][ (slast'.op = "handleConnectToggle" /\ wsConnected /\ socket # 0)
        => /\ socket \in Ended(conns')
           /\ Len(conns') = Len(conns)
           /\ timers' = timers ]_socketVars

\* C26: the adapter never reconnects on its own: no handler of a connection
\* (open, message, error, close) creates a connection or schedules one; a
\* connection is created only in the turn of an endpoint edit or of a toggle,
\* or by the timer the toggle scheduled, and only the toggle schedules one.
C26_NoAutomaticReconnect ==
    [][ /\ Len(conns') > Len(conns)
            => slast'.op \in {"handleWsEndpointChange", "handleConnectToggle",
                              "TimerFires"}
        /\ Len(timers') > Len(timers) => slast'.op = "handleConnectToggle"
        /\ slast'.conn # 0 => (Len(conns') = Len(conns) /\ timers' = timers)
      ]_socketVars

\* a connection ended with an error and nothing is connecting or scheduled
C26_Witness ==
    /\ slast.op = "onerror+onclose"
    /\ slast.closedBy = "none"
    /\ Live(conns) = {}
    /\ timers = <<>>

\* C35: the connect toggle never alters the configured endpoint: after any
\* sequence of presses, also several before the timer of an earlier press
\* has fired, once all pending timers have run the endpoint equals the value
\* it had before the presses and a connection attempt to it has been started.
C35_ToggleKeepsEndpoint ==
    (/\ wsMounted
     /\ slast.op = "TimerFires"
     /\ timers = <<>>
     /\ toggledFrom # NotToggled)
        => /\ wsEndpoint = toggledFrom
           /\ TRUE \notin WebSocketThrows(toggledFrom) => effectWs # 0

\* the connection of the latest effect run is open
CurrentOpen == effectWs # 0 /\ conns[effectWs].state = "OPEN"

\* C31: the displayed status is true exactly when the adapter's current
\* connection is open; a late callback of a connection closed earlier never
\* changes the status of the current connection.
C31_StatusIsCurrentConnection ==
    wsMounted => (wsConnected <=> CurrentOpen)

\* What holds of the status: it is true only while the current connection
\* is open.
ConnectedOnlyWhileOpen == (wsMounted /\ wsConnected) => CurrentOpen

(***************************************************************************)
(* Claims about the bus (checked under BusSpec)                            *)
(***************************************************************************)
\* the events of the deliveries ds that subscriber h was registered for
EventsFor(h, ds) ==
    LET sel == SelectSeq(ds, LAMBDA d : h \in Range(d.registered))
    IN  [k \in 1..Len(sel) |-> sel[k].event]

IsPrefix(a, b) == Len(a) <= Len(b) /\ SubSeq(b, 1, Len(a)) = a

NoDuplicates(q) == \A i, j \in 1..Len(q) : q[i] = q[j] => i = j

\* C30: after initialization, across any sequence of toggleFeed calls the
\* active feeds have between 1 and 5 members and no id twice; a toggle that
\* would deactivate the last active feed removes nothing, a toggle that would
\* activate a sixth adds nothing, and such a rejected toggle leaves the
\* active feeds and the current feed index as they were.
C30_ActiveFeedsBounded ==
    [][ /\ Len(activeFeeds') \in 1..5
        /\ NoDuplicates(activeFeeds')
        /\ ilast'.op = "toggleFeed"
            => /\ Len(activeFeeds) = 1
                   => Range(activeFeeds) \subseteq Range(activeFeeds')
               /\ Len(activeFeeds) = 5
                   => Range(activeFeeds') \subseteq Range(activeFeeds)
               /\ Len(activeFeeds') = Len(activeFeeds)
                   => /\ activeFeeds' = activeFeeds
                      /\ currentFeedIndex' = currentFeedIndex
      ]_indexVars

\* with five feeds active and the fourth displayed, the toggle of a sixth
\* feed was rejected
C30_Witness ==
    /\ ilast.op = "toggleFeed"
    /\ Len(activeFeeds) = 5
    /\ currentFeedIndex = 3

\* C36: the current feed index is always a position of the active-feed
\* list; next and prev move it by one and wrap around at the ends of the
\* list, and do nothing when one feed is active; every accepted toggle
\* resets it to 0.
C36_IndexValid ==
    [][ /\ currentFeedIndex' \in 0..(Len(activeFeeds') - 1)
        /\ ilast'.op = "handleNextFeed"
            => /\ activeFeeds' = activeFeeds
               /\ currentFeedIndex' =
                     IF currentFeedIndex = Len(activeFeeds) - 1
                     THEN 0 ELSE currentFeedIndex + 1
        /\ ilast'.op = "handlePrevFeed"
            => /\ activeFeeds' = activeFeeds
               /\ currentFeedIndex' =
                     IF currentFeedIndex = 0
                     THEN Len(activeFeeds) - 1 ELSE currentFeedIndex - 1
        /\ (ilast'.op = "toggleFeed" /\ activeFeeds' # activeFeeds)
            => currentFeedIndex' = 0
      ]_indexVars

\* prev wrapped from the first to the last of at least three active feeds
C36_Witness ==
    /\ ilast.op = "handlePrevFeed"
    /\ Len(activeFeeds) >= 3
    /\ currentFeedIndex = Len(activeFeeds) - 1

\* C37: the feed list never holds two feeds with the same id: handleNewFeed
\* appends the feed and logs one 'connected' message only when no feed has
\* its id, and otherwise leaves the feed list (and the log) unchanged, so a
\* feed announced twice is listed once.
C37_FeedIdsUnique ==
    [][ /\ \A i, j \in 1..Len(feeds') : feeds'[i].id = feeds'[j].id => i = j
        /\ ilast'.op = "handleNewFeed"
            => LET newFeed == Head(pendingFeeds)
               IN  IF \E i \in 1..Len(feeds) : feeds[i].id = newFeed.id
                   THEN /\ feeds' = feeds
                        /\ terminalOutput' = terminalOutput
                   ELSE /\ feeds' = Append(feeds, newFeed)
                        /\ terminalOutput'
                              = Append(terminalOutput,
                                       Entry(now, <<"New camera feed connected: ",
                                                    newFeed.name>>))
      ]_indexVars

\* a feed that is listed, under a new name, was announced again and the list
\* kept the one entry
C37_Witness ==
    /\ ilast.op = "handleNewFeed"
    /\ ilast.messages = <<>>
    /\ Len(feeds) = 2
    /\ \E i \in 1..Len(feeds) : feeds[i].id = "1" /\ feeds[i].name = "Gate"

====
